---- MODULE Spec2Model ----
(***************************************************************************)
(* Model of ollama-rename (src/src/main.rs): the rename workflow in its    *)
(* non-interactive form (run_non_interactive) and its interactive form     *)
(* (run_interactive), with the copy and delete operations and their        *)
(* HTTP -> CLI fallback.                                                   *)
(*                                                                         *)
(* The program is sequential.  Every request it sends to the daemon and    *)
(* every child process it runs is one step of the model; the answer the    *)
(* step receives is chosen nondeterministically among the answers the      *)
(* daemon can give.  A model name is a tuple of one-character strings, so  *)
(* that trimming and the naming grammar are computed on the characters.    *)
(***************************************************************************)
EXTENDS Integers, Sequences, FiniteSets, TLC

(***************************************************************************)
(* Bounds                                                                  *)
(***************************************************************************)
\* number of distinct model names the registry can hold
NumModels == 2

NameLetters == <<"a", "b", "c", "d">>

\* the names of the models the daemon may have installed
ModelNames == { <<NameLetters[i]>> : i \in 1..NumModels }

\* raw strings given as --to or typed at the name prompt
ToInputs ==
    ModelNames \cup { <<" ", "a", " ">>, <<"a", "@">>, <<"a", " ", "b">>, << >> }

\* raw strings given as --from (never validated by the program)
FromInputs == ModelNames \cup { <<" ", "a">> }

(***************************************************************************)
(* Strings                                                                 *)
(***************************************************************************)
Letters ==
    { "a", "b", "c", "d", "e", "f", "g", "h", "i", "j", "k", "l", "m",
      "n", "o", "p", "q", "r", "s", "t", "u", "v", "w", "x", "y", "z",
      "A", "B", "C", "D", "E", "F", "G", "H", "I", "J", "K", "L", "M",
      "N", "O", "P", "Q", "R", "S", "T", "U", "V", "W", "X", "Y", "Z" }

Digits == { "0", "1", "2", "3", "4", "5", "6", "7", "8", "9" }

\* the character class [A-Za-z0-9._-] of the naming grammar
IsNameChar(c) == c \in Letters \cup Digits \cup { ".", "_", "-" }

IsWhitespace(c) == c \in { " ", "\t", "\n", "\r" }

RECURSIVE TrimStart(_)
TrimStart(s) ==
    IF s = << >> THEN << >>
    ELSE IF IsWhitespace(Head(s)) THEN TrimStart(Tail(s))
    ELSE s

RECURSIVE TrimEnd(_)
TrimEnd(s) ==
    IF s = << >> THEN << >>
    ELSE IF IsWhitespace(s[Len(s)]) THEN TrimEnd(SubSeq(s, 1, Len(s) - 1))
    ELSE s

\* str::trim
Trim(s) == TrimEnd(TrimStart(s))

\* the automaton of a pattern with `*` for the `+` of a segment: an empty
\* segment is let through
ReStep_EmptySegment(q, c) ==
    CASE q = "seg0" -> IF IsNameChar(c) THEN "seg"
                       ELSE IF c = "/" THEN "seg0"
                       ELSE "rej"
      [] q = "seg"  -> IF IsNameChar(c) THEN "seg"
                       ELSE IF c = "/" THEN "seg0"
                       ELSE IF c = ":" THEN "tag0"
                       ELSE "rej"
      [] q = "tag0" -> IF IsNameChar(c) THEN "tag" ELSE "rej"
      [] q = "tag"  -> IF IsNameChar(c) THEN "tag" ELSE "rej"
      [] OTHER      -> "rej"

\* One step of the automaton of
\*   ^(?:[A-Za-z0-9._-]+/)*[A-Za-z0-9._-]+(?:[:][A-Za-z0-9._-]+)?$
\* "seg0": a segment must start; "seg": inside a segment;
\* "tag0": a tag must start;     "tag": inside the tag; "rej": no match.
ReStep(q, c) ==
    CASE q = "seg0" -> IF IsNameChar(c) THEN "seg" ELSE "rej"
      [] q = "seg"  -> IF IsNameChar(c) THEN "seg"
                       ELSE IF c = "/" THEN "seg0"
                       ELSE IF c = ":" THEN "tag0"
                       ELSE "rej"
      [] q = "tag0" -> IF IsNameChar(c) THEN "tag" ELSE "rej"
      [] q = "tag"  -> IF IsNameChar(c) THEN "tag" ELSE "rej"
      [] OTHER      -> "rej"

RECURSIVE ReRun(_, _)
ReRun(q, s) == IF s = << >> THEN q ELSE ReRun(ReStep(q, Head(s)), Tail(s))

\* validate_model_name(s) is Ok
validate_model_name(s) == ReRun("seg0", s) \in { "seg", "tag" }

(***************************************************************************)
(* State                                                                   *)
(***************************************************************************)
VARIABLES
    registry,          \* daemon: the set of installed model names
    running,           \* daemon: the set of model names loaded for inference
    mode,              \* "ni": Cmd::Rename was given; "ia": interactive
    use_cli_fallback,  \* Cli.use_cli_fallback
    req,               \* the fields of Cmd::Rename
    pc,                \* the program's position
    from,              \* run_non_interactive: from; run_interactive: chosen.name
    to,                \* run_non_interactive: to;   run_interactive: new_name
    step,              \* the workflow step on whose behalf copy/delete runs
    result,            \* "pending", "Ok", or the error the run ended with
    trace,             \* every request sent, child process run and return of
                       \* copy_model / delete_model, in order
    models,            \* run_interactive: the listing fetched at the start
    registry0,         \* the registry when the run started
    windows,           \* cfg!(target_os = "windows")
    boot_pc,           \* ensure_ollama_is_running: the position in it
    boot_i,            \* ensure_ollama_is_running: iterations of the wait loop
    boot_log,          \* ensure_ollama_is_running: probes and child processes
    boot_result,       \* ensure_ollama_is_running: "pending", "Ok" or the error
    applied,           \* the function a name is given to, outside a run
    input,             \* the name given to it
    flag_out,          \* what --to makes of input: NotApplied until applied
    prompt_out,        \* what the name prompt makes of input
    valid_out,         \* validate_model_name(input)
    suggest_out,       \* suggest_simple_name(input)
    others             \* daemon: changes of the registry made for other clients

\* the state of ensure_ollama_is_running
bootvars == << windows, boot_pc, boot_i, boot_log, boot_result >>

\* the functions on names, applied outside a run
namevars == << applied, input, flag_out, prompt_out, valid_out, suggest_out >>

vars ==
    << registry, running, mode, use_cli_fallback, req, pc, from, to, step,
       result, trace, models, registry0, bootvars, namevars, others >>

\* what no step of a run changes
fixed ==
    << running, mode, use_cli_fallback, req, registry0, bootvars, namevars,
       others >>

\* the output of a function on names that has not been applied
NotApplied == [ done |-> FALSE, ok |-> FALSE, name |-> << >> ]

\* no function on names is being applied
NamesIdle ==
    /\ applied = "none"
    /\ input = << >>
    /\ flag_out = NotApplied
    /\ prompt_out = NotApplied
    /\ valid_out = NotApplied
    /\ suggest_out = NotApplied

\* ensure_ollama_is_running returned Ok(()) at its first probe
BootDone ==
    /\ windows = FALSE
    /\ boot_pc = "done"
    /\ boot_i = 0
    /\ boot_log = << [ op |-> "GET /api/version", ok |-> TRUE ] >>
    /\ boot_result = "Ok"

NoName == << >>

Requests ==
    [ from : FromInputs, to : ToInputs, delete_original : BOOLEAN,
      force : BOOLEAN, dry_run : BOOLEAN, overwrite : BOOLEAN ]

\* the request of an interactive run: no flag is read
NoRequest ==
    [ from |-> NoName, to |-> NoName, delete_original |-> FALSE,
      force |-> FALSE, dry_run |-> FALSE, overwrite |-> FALSE ]

Init ==
    /\ BootDone
    /\ NamesIdle
    /\ registry \in SUBSET ModelNames
    /\ running \in SUBSET registry
    /\ registry0 = registry
    /\ use_cli_fallback \in BOOLEAN
    /\ mode \in { "ni", "ia" }
    /\ req \in (IF mode = "ni" THEN Requests ELSE { NoRequest })
    /\ pc = (IF mode = "ni" THEN "ni_start" ELSE "ia_list")
    /\ from = NoName
    /\ to = NoName
    /\ step = "none"
    /\ result = "pending"
    /\ trace = << >>
    /\ models = { }
    /\ others = 0


(***************************************************************************)
(* The daemon and the native executable, as the program observes them      *)
(***************************************************************************)
\* answers to a request: 2xx, another status, a transport error
HttpAnswers == { "ok", "status", "transport" }

\* answers to a GET whose body is decoded as JSON: also a 2xx with a body
\* that does not decode
JsonAnswers == HttpAnswers \cup { "decode" }

\* ends of a child process: exit code zero, another exit code, not spawned
CliAnswers == { "zero", "nonzero", "spawn" }

\* the daemon copies only a model it has
CopyCanSucceed(reg, src) == src \in reg

\* the registry after a copy that succeeded
RegistryAfterCopy(reg, src, dst) == reg \cup { dst }

\* the daemon deletes only a model it has
DeleteCanSucceed(reg, n) == n \in reg

\* the registry after a delete that succeeded
RegistryAfterDelete(reg, n) == reg \ { n }

(***************************************************************************)
(* The decisions of the code                                               *)
(***************************************************************************)
\* list_models: Ok only for a 2xx whose body decodes
list_models_ok(r) == r = "ok"

\* model_exists over the listing
model_exists(listing, n) == n \in listing

\* model_is_running: a transport error and a body that does not decode are
\* Err, another status is Ok(false), a listing is Ok(name is listed)
model_is_running(r, loaded, n) ==
    CASE r \in { "transport", "decode" } -> "Err"
      [] r = "status"                    -> "false"
      [] OTHER -> IF n \in loaded THEN "true" ELSE "false"

\* an Err of the check counts as running
unwrap_or_true(x) == x # "false"

\* Result<bool>::unwrap_or(false)
unwrap_or_false(x) == x = "true"

\* run_non_interactive: the name is trimmed, then validated
NI_Accepts(raw) == validate_model_name(Trim(raw))

\* run_interactive: validate_with sees the text as typed; the trim comes
\* after the prompt has accepted it
IA_Accepts(raw) == validate_model_name(raw)

\* the dry-run flag is never read
NI_Entry_NoDryRun(valid, dry_run) == IF ~valid THEN "invalid" ELSE "go"

\* run_non_interactive, the entry: validation of the trimmed name, dry run
NI_Entry(valid, dry_run) ==
    IF ~valid THEN "invalid"
    ELSE IF dry_run THEN "dry"
    ELSE "go"

\* an existing destination is always replaced
NI_ExistsBranch_AlwaysOverwrite(exists, overwrite) ==
    IF exists THEN "delete" ELSE "copy"

\* an existing destination is copied over without the delete
NI_ExistsBranch_SkipDelete(exists, overwrite) ==
    IF exists /\ ~overwrite THEN "bail" ELSE "copy"

\* run_non_interactive, after model_exists(to) returned Ok(exists)
NI_ExistsBranch(exists, overwrite) ==
    IF exists
    THEN IF overwrite THEN "delete" ELSE "bail"
    ELSE "copy"

\* run_non_interactive, after copy_model returned Ok
NI_AfterCopy(delete_original, force) ==
    IF delete_original
    THEN IF ~force THEN "ps" ELSE "delete"
    ELSE "done"

\* the running check is made and its answer dropped
NI_AfterPs_NeverBail(is_running) == "delete"

\* run_non_interactive, after the running check
NI_AfterPs(is_running) == IF is_running THEN "bail" ELSE "delete"

\* every failure of the DELETE goes on to the POST
TryDeleteAfterDelete_RetryOnTransport(r) == IF r = "ok" THEN "Ok" ELSE "post"

\* try_delete, after the DELETE was sent: send()? ends the closure on a
\* transport error, a 2xx ends it with Ok, another status goes on to POST
TryDeleteAfterDelete(r) ==
    CASE r = "ok"        -> "Ok"
      [] r = "transport" -> "Err"
      [] OTHER           -> "post"

\* try_delete, after the POST was sent
TryDeleteAfterPost(r) == IF r = "ok" THEN "Ok" ELSE "Err"

\* delete_model, match try_delete(): Err goes to cli_rm with the fallback
DeleteAfterTry(t, fallback) ==
    IF t = "Err" THEN (IF fallback THEN "cli" ELSE "Err") ELSE t

\* the CLI is run whether or not the fallback is enabled
CopyAfterPost_AlwaysCli(r, fallback) == IF r = "ok" THEN "Ok" ELSE "cli"

\* copy_model, match res
CopyAfterPost(r, fallback) ==
    IF r = "ok" THEN "Ok"
    ELSE IF fallback THEN "cli" ELSE "Err"

\* cli_copy and cli_rm: Ok only for exit code zero
cli_ok(r) == r = "zero"

(***************************************************************************)
(* Steps                                                                   *)
(***************************************************************************)
Ev(s, op, a, b, res, val) ==
    [ step |-> s, op |-> op, a |-> a, b |-> b, res |-> res, val |-> val ]

\* the run ends with res
Done(res, tr, reg) ==
    /\ pc' = "done"
    /\ result' = res
    /\ trace' = tr
    /\ registry' = reg
    /\ step' = "none"
    /\ UNCHANGED << from, to, models >>
    /\ UNCHANGED fixed

\* the run goes on at p, in workflow step s
Goto(p, s, tr, reg) ==
    /\ pc' = p
    /\ step' = s
    /\ trace' = tr
    /\ registry' = reg
    /\ UNCHANGED << result, from, to, models >>
    /\ UNCHANGED fixed

\* the argument of the delete_model call of the current step
DelName == IF step = "overwrite" THEN to ELSE from

\* the Err of the delete of the original is dropped
DeleteModelReturns_Swallow(ok, tr, reg) ==
    LET tr2 == Append(tr, Ev(step, "delete_model", DelName, NoName,
                             IF ok THEN "Ok" ELSE "Err", ok))
    IN  IF ~ok /\ step = "overwrite"
        THEN Done("DeleteDestinationFailed", tr2, reg)
        ELSE IF step = "overwrite"
        THEN Goto("copy_post", "copy", tr2, reg)
        ELSE Done("Ok", tr2, reg)

\* delete_model returns to its caller: `?` ends the run on Err
DeleteModelReturns(ok, tr, reg) ==
    LET tr2 == Append(tr, Ev(step, "delete_model", DelName, NoName,
                             IF ok THEN "Ok" ELSE "Err", ok))
    IN  IF ~ok
        THEN Done(IF step = "overwrite" THEN "DeleteDestinationFailed"
                  ELSE "DeleteOriginalFailed", tr2, reg)
        ELSE IF step = "overwrite"
        THEN Goto("copy_post", "copy", tr2, reg)
        ELSE Done("Ok", tr2, reg)

\* the Err of copy_model is dropped
CopyModelReturns_IgnoreErr(ok, tr, reg) ==
    LET tr2 == Append(tr, Ev(step, "copy_model", from, to,
                             IF ok THEN "Ok" ELSE "Err", ok))
    IN  IF mode = "ia"
        THEN Goto("ia_confirm_delete", "delete_original", tr2, reg)
        ELSE CASE NI_AfterCopy(req.delete_original, req.force) = "ps" ->
                    Goto("ni_ps", "delete_original", tr2, reg)
               [] NI_AfterCopy(req.delete_original, req.force) = "delete" ->
                    Goto("del_delete", "delete_original", tr2, reg)
               [] OTHER -> Done("Ok", tr2, reg)

\* copy_model returns to its caller
CopyModelReturns(ok, tr, reg) ==
    LET tr2 == Append(tr, Ev(step, "copy_model", from, to,
                             IF ok THEN "Ok" ELSE "Err", ok))
    IN  IF ~ok
        THEN Done("CopyFailed", tr2, reg)
        ELSE IF mode = "ia"
        THEN Goto("ia_confirm_delete", "delete_original", tr2, reg)
        ELSE CASE NI_AfterCopy(req.delete_original, req.force) = "ps" ->
                    Goto("ni_ps", "delete_original", tr2, reg)
               [] NI_AfterCopy(req.delete_original, req.force) = "delete" ->
                    Goto("del_delete", "delete_original", tr2, reg)
               [] OTHER -> Done("Ok", tr2, reg)

\* run_non_interactive: trim, validate, dry run
NI_Validate ==
    /\ pc = "ni_start"
    /\ to' = Trim(req.to)
    /\ from' = Trim(req.from)
    /\ LET br == NI_Entry(NI_Accepts(req.to), req.dry_run)
       IN  CASE br = "invalid" -> pc' = "done" /\ result' = "InvalidName"
             [] br = "dry"     -> pc' = "done" /\ result' = "Ok"
             [] OTHER          -> pc' = "ni_exists" /\ result' = result
    /\ step' = (IF pc' = "done" THEN "none" ELSE "exists")
    /\ UNCHANGED << registry, trace, models >>
    /\ UNCHANGED fixed

\* run_non_interactive: model_exists(to) and the branch on it
NI_ModelExists ==
    /\ pc = "ni_exists"
    /\ \E r \in JsonAnswers :
        LET exists == model_exists(registry, to)
            tr == Append(trace, Ev(step, "GET /api/tags", to, NoName, r,
                                   list_models_ok(r) /\ exists))
            br == NI_ExistsBranch(exists, req.overwrite)
        IN  IF ~list_models_ok(r)
            THEN Done("ListFailed", tr, registry)
            ELSE CASE br = "delete" -> Goto("del_delete", "overwrite", tr, registry)
                   [] br = "bail"   -> Done("DestinationExists", tr, registry)
                   [] OTHER         -> Goto("copy_post", "copy", tr, registry)

\* delete_model: DELETE /api/delete {model: name}
DeleteHttpDelete ==
    /\ pc = "del_delete"
    /\ \E r \in HttpAnswers :
        /\ r = "ok" => DeleteCanSucceed(registry, DelName)
        /\ LET tr == Append(trace, Ev(step, "DELETE /api/delete", DelName,
                                      NoName, r, r = "ok"))
               reg == IF r = "ok" THEN RegistryAfterDelete(registry, DelName)
                      ELSE registry
               nx == DeleteAfterTry(TryDeleteAfterDelete(r), use_cli_fallback)
           IN  CASE nx = "Ok"   -> DeleteModelReturns(TRUE, tr, reg)
                 [] nx = "post" -> Goto("del_post", step, tr, reg)
                 [] nx = "cli"  -> Goto("del_cli", step, tr, reg)
                 [] OTHER       -> DeleteModelReturns(FALSE, tr, reg)

\* delete_model: POST /api/delete {model: name}
DeleteHttpPost ==
    /\ pc = "del_post"
    /\ \E r \in HttpAnswers :
        /\ r = "ok" => DeleteCanSucceed(registry, DelName)
        /\ LET tr == Append(trace, Ev(step, "POST /api/delete", DelName,
                                      NoName, r, r = "ok"))
               reg == IF r = "ok" THEN RegistryAfterDelete(registry, DelName)
                      ELSE registry
               nx == DeleteAfterTry(TryDeleteAfterPost(r), use_cli_fallback)
           IN  CASE nx = "Ok"  -> DeleteModelReturns(TRUE, tr, reg)
                 [] nx = "cli" -> Goto("del_cli", step, tr, reg)
                 [] OTHER      -> DeleteModelReturns(FALSE, tr, reg)

\* cli_rm: ollama rm name
CliRm ==
    /\ pc = "del_cli"
    /\ \E r \in CliAnswers :
        /\ r = "zero" => DeleteCanSucceed(registry, DelName)
        /\ LET tr == Append(trace, Ev(step, "ollama rm", DelName, NoName, r,
                                      r = "zero"))
               reg == IF r = "zero" THEN RegistryAfterDelete(registry, DelName)
                      ELSE registry
           IN  DeleteModelReturns(cli_ok(r), tr, reg)

\* copy_model: POST /api/copy {source, destination}
CopyHttpPost ==
    /\ pc = "copy_post"
    /\ \E r \in HttpAnswers :
        /\ r = "ok" => CopyCanSucceed(registry, from)
        /\ LET tr == Append(trace, Ev(step, "POST /api/copy", from, to, r,
                                      r = "ok"))
               reg == IF r = "ok" THEN RegistryAfterCopy(registry, from, to)
                      ELSE registry
               nx == CopyAfterPost(r, use_cli_fallback)
           IN  CASE nx = "Ok"  -> CopyModelReturns(TRUE, tr, reg)
                 [] nx = "cli" -> Goto("copy_cli", step, tr, reg)
                 [] OTHER      -> CopyModelReturns(FALSE, tr, reg)

\* cli_copy: ollama cp from to
CliCopy ==
    /\ pc = "copy_cli"
    /\ \E r \in CliAnswers :
        /\ r = "zero" => CopyCanSucceed(registry, from)
        /\ LET tr == Append(trace, Ev(step, "ollama cp", from, to, r,
                                      r = "zero"))
               reg == IF r = "zero" THEN RegistryAfterCopy(registry, from, to)
                      ELSE registry
           IN  CopyModelReturns(cli_ok(r), tr, reg)

\* run_non_interactive: the running check before the delete of the original
NI_ModelIsRunning ==
    /\ pc = "ni_ps"
    /\ \E r \in JsonAnswers :
        LET is_running == unwrap_or_false(model_is_running(r, running, from))
            tr == Append(trace, Ev(step, "GET /api/ps", from, NoName, r,
                                   is_running))
        IN  IF NI_AfterPs(is_running) = "bail"
            THEN Done("SourceAppearsLoaded", tr, registry)
            ELSE Goto("del_delete", "delete_original", tr, registry)


\* what comes back from a yes/no prompt: the user typed yes, typed no,
\* pressed Enter on the default, or the terminal failed
ConfirmAnswers == { "yes", "no", "enter", "err" }

\* the default answer is yes
confirm_DefaultTrue(ans) ==
    CASE ans \in { "yes", "enter" } -> "true"
      [] ans = "no"                 -> "false"
      [] OTHER                      -> "Err"

\* Confirm::with_theme(..).default(false).interact(): Enter declines
confirm(ans) ==
    CASE ans = "yes"               -> "true"
      [] ans \in { "no", "enter" } -> "false"
      [] OTHER                     -> "Err"

\* run_interactive: list_models, and the bail on an empty listing
IA_ListModels ==
    /\ pc = "ia_list"
    /\ \E r \in JsonAnswers :
        LET tr == Append(trace, Ev("list", "GET /api/tags", NoName, NoName, r,
                                   list_models_ok(r)))
        IN  /\ models' = (IF list_models_ok(r) THEN registry ELSE { })
            /\ trace' = tr
            /\ IF ~list_models_ok(r)
               THEN pc' = "done" /\ result' = "ListFailed"
               ELSE IF models' = { }
               THEN pc' = "done" /\ result' = "NoModels"
               ELSE pc' = "ia_select" /\ result' = result
            /\ UNCHANGED << registry, from, to, step >>
            /\ UNCHANGED fixed

\* run_interactive: FuzzySelect over the sorted listing; the sort only
\* fixes which index shows which model, every model of the listing can be
\* chosen
IA_Select ==
    /\ pc = "ia_select"
    /\ \/ \E m \in models :
            /\ from' = m
            /\ pc' = "ia_name"
            /\ UNCHANGED result
       \/ /\ pc' = "done"
          /\ result' = "PromptError"
          /\ UNCHANGED from
    /\ UNCHANGED << registry, to, step, trace, models >>
    /\ UNCHANGED fixed

\* run_interactive: Input with validate_with(validate_model_name) prompts
\* again until the text validates; the accepted text is trimmed afterwards
IA_InputName ==
    /\ pc = "ia_name"
    /\ \/ \E raw \in ToInputs :
            IF ~IA_Accepts(raw)
            THEN UNCHANGED << pc, to, result, step >>
            ELSE /\ to' = Trim(raw)
                 /\ IF to' = from
                    THEN pc' = "done" /\ result' = "SameName" /\ step' = "none"
                    ELSE pc' = "ia_exists" /\ result' = result /\ step' = "exists"
       \/ /\ pc' = "done"
          /\ result' = "PromptError"
          /\ UNCHANGED << to, step >>
    /\ UNCHANGED << registry, from, trace, models >>
    /\ UNCHANGED fixed

\* run_interactive: model_exists(new_name)
IA_ModelExists ==
    /\ pc = "ia_exists"
    /\ \E r \in JsonAnswers :
        LET exists == model_exists(registry, to)
            tr == Append(trace, Ev(step, "GET /api/tags", to, NoName, r,
                                   list_models_ok(r) /\ exists))
        IN  IF ~list_models_ok(r)
            THEN Done("ListFailed", tr, registry)
            ELSE IF exists
            THEN Goto("ia_confirm_overwrite", "overwrite", tr, registry)
            ELSE Goto("copy_post", "copy", tr, registry)

\* run_interactive: "'..' already exists. Overwrite (delete it first)?"
IA_ConfirmOverwrite ==
    /\ pc = "ia_confirm_overwrite"
    /\ \E ans \in ConfirmAnswers :
        LET tr == Append(trace, Ev(step, "confirm overwrite", to, NoName, ans,
                                   confirm(ans) = "true"))
        IN  CASE confirm(ans) = "true" -> Goto("del_delete", "overwrite", tr, registry)
              [] confirm(ans) = "false" -> Done("Ok", tr, registry)
              [] OTHER -> Done("PromptError", tr, registry)

\* run_interactive: "Delete original '..' (i.e., move)?"
IA_ConfirmDelete ==
    /\ pc = "ia_confirm_delete"
    /\ \E ans \in ConfirmAnswers :
        LET tr == Append(trace, Ev(step, "confirm delete", from, NoName, ans,
                                   confirm(ans) = "true"))
        IN  CASE confirm(ans) = "true" -> Goto("ia_ps", "delete_original", tr, registry)
              [] confirm(ans) = "false" -> Done("Ok", tr, registry)
              [] OTHER -> Done("PromptError", tr, registry)

\* run_interactive: the running check before the delete of the original
IA_ModelIsRunning ==
    /\ pc = "ia_ps"
    /\ \E r \in JsonAnswers :
        LET is_running == unwrap_or_false(model_is_running(r, running, from))
            tr == Append(trace, Ev(step, "GET /api/ps", from, NoName, r,
                                   is_running))
        IN  IF is_running
            THEN Goto("ia_confirm_proceed", "delete_original", tr, registry)
            ELSE Goto("del_delete", "delete_original", tr, registry)

\* run_interactive: "Model seems loaded. Proceed with delete anyway?"
IA_ConfirmProceed ==
    /\ pc = "ia_confirm_proceed"
    /\ \E ans \in ConfirmAnswers :
        LET tr == Append(trace, Ev(step, "confirm proceed", from, NoName, ans,
                                   confirm(ans) = "true"))
        IN  CASE confirm(ans) = "true" -> Goto("del_delete", "delete_original", tr, registry)
              [] confirm(ans) = "false" -> Done("Ok", tr, registry)
              [] OTHER -> Done("PromptError", tr, registry)

Next ==
    \/ NI_Validate
    \/ NI_ModelExists
    \/ NI_ModelIsRunning
    \/ IA_ListModels
    \/ IA_Select
    \/ IA_InputName
    \/ IA_ModelExists
    \/ IA_ConfirmOverwrite
    \/ IA_ConfirmDelete
    \/ IA_ModelIsRunning
    \/ IA_ConfirmProceed
    \/ DeleteHttpDelete
    \/ DeleteHttpPost
    \/ CliRm
    \/ CopyHttpPost
    \/ CliCopy

Spec == Init /\ [][Next]_vars

(***************************************************************************)
(* ensure_ollama_is_running                                                *)
(***************************************************************************)
\* `for _ in 0..30`
MaxPolls == 30

\* the workflow has not started: run_app calls it after the daemon is up
NotStarted ==
    /\ registry = { }
    /\ running = { }
    /\ registry0 = { }
    /\ use_cli_fallback = FALSE
    /\ mode = "ni"
    /\ req = NoRequest
    /\ pc = "not_started"
    /\ from = NoName
    /\ to = NoName
    /\ step = "none"
    /\ result = "pending"
    /\ trace = << >>
    /\ models = { }
    /\ NamesIdle
    /\ others = 0

\* the variables of the workflow
runvars ==
    << registry, running, mode, use_cli_fallback, req, pc, from, to, step,
       result, trace, models, registry0, namevars, others >>

InitBoot ==
    /\ NotStarted
    /\ windows \in BOOLEAN
    /\ boot_pc = "probe"
    /\ boot_i = 0
    /\ boot_log = << >>
    /\ boot_result = "pending"

BootEv(op, ok) == [ op |-> op, ok |-> ok ]

\* ensure_ollama_is_running returns
BootReturns(res, log) ==
    /\ boot_pc' = "done"
    /\ boot_result' = res
    /\ boot_log' = log
    /\ UNCHANGED << windows, boot_i >>
    /\ UNCHANGED runvars

\* ensure_ollama_is_running goes on at p
BootGoto(p, i, log) ==
    /\ boot_pc' = p
    /\ boot_i' = i
    /\ boot_log' = log
    /\ UNCHANGED << windows, boot_result >>
    /\ UNCHANGED runvars

\* the wait loop runs one more iteration after 31 failed probes
LoopContinues_OffByOne(i) == i <= MaxPolls

\* `for _ in 0..30`: the loop has an iteration left
LoopContinues(i) == i < MaxPolls

\* is_ollama_api_running at the entry: only the transport's success counts
Boot_FirstProbe ==
    /\ boot_pc = "probe"
    /\ \E up \in BOOLEAN :
        LET log == Append(boot_log, BootEv("GET /api/version", up))
        IN  IF up
            THEN BootReturns("Ok", log)
            ELSE BootGoto("which", boot_i, log)

\* Command::new("ollama").arg("--version").output()
Boot_CheckCli ==
    /\ boot_pc = "which"
    /\ \E found \in BOOLEAN :
        LET log == Append(boot_log, BootEv("ollama --version", found))
        IN  IF found
            THEN BootGoto("start", boot_i, log)
            ELSE BootReturns("CliNotFound", log)

\* start_ollama_service()?: on Windows `sc start Ollama`, then a spawned
\* `cmd /C start ollama serve`; elsewhere a spawned `ollama serve`
Boot_StartService ==
    /\ boot_pc = "start"
    /\ \/ /\ windows
          /\ \E sc \in BOOLEAN :
               LET log1 == Append(boot_log, BootEv("sc start Ollama", sc))
               IN  IF sc
                   THEN BootGoto("poll", 0,
                                 Append(log1, BootEv("start_ollama_service", TRUE)))
                   ELSE \E spawned \in BOOLEAN :
                          LET log2 == Append(log1,
                                        BootEv("cmd /C start ollama serve", spawned))
                              log3 == Append(log2,
                                        BootEv("start_ollama_service", spawned))
                          IN  IF spawned
                              THEN BootGoto("poll", 0, log3)
                              ELSE BootReturns("StartFailed", log3)
       \/ /\ ~windows
          /\ \E spawned \in BOOLEAN :
               LET log1 == Append(boot_log, BootEv("ollama serve", spawned))
                   log2 == Append(log1, BootEv("start_ollama_service", spawned))
               IN  IF spawned
                   THEN BootGoto("poll", 0, log2)
                   ELSE BootReturns("StartFailed", log2)

\* one iteration of the wait loop: probe, return on success, else sleep 1 s
Boot_Poll ==
    /\ boot_pc = "poll"
    /\ LoopContinues(boot_i)
    /\ \E up \in BOOLEAN :
        LET log == Append(boot_log, BootEv("GET /api/version", up))
        IN  IF up
            THEN BootReturns("Ok", log)
            ELSE BootGoto("poll", boot_i + 1, log)

\* the wait loop is over: bail!("Failed to start Ollama service (timeout).")
Boot_Timeout ==
    /\ boot_pc = "poll"
    /\ ~LoopContinues(boot_i)
    /\ BootReturns("Timeout", boot_log)

NextBoot ==
    \/ Boot_FirstProbe
    \/ Boot_CheckCli
    \/ Boot_StartService
    \/ Boot_Poll
    \/ Boot_Timeout

\* the program is sequential and every call in ensure_ollama_is_running
\* returns (3 s request timeout, 1 s sleep): a step that can be taken is taken
SpecBoot == InitBoot /\ [][NextBoot]_vars /\ WF_vars(NextBoot)


(***************************************************************************)
(* Reading the trace                                                       *)
(***************************************************************************)
DeleteOps == { "DELETE /api/delete", "POST /api/delete", "ollama rm" }

CopyOps == { "POST /api/copy", "ollama cp" }

NetworkOps == DeleteOps \cup CopyOps \cup { "GET /api/tags", "GET /api/ps" }

Indices == 1..Len(trace)

\* some event with this operation is in the trace
Issued(ops) == \E i \in Indices : trace[i].op \in ops

\* copy_model returned Ok
CopySucceeded == \E i \in Indices : trace[i].op = "copy_model" /\ trace[i].res = "Ok"

\* the existence check of the destination got a listing with the name in it
DestinationListed ==
    \E i \in Indices :
        /\ trace[i].op = "GET /api/tags"
        /\ trace[i].step = "exists"
        /\ trace[i].res = "ok"
        /\ trace[i].a \in registry0

(***************************************************************************)
(* Claims                                                                  *)
(***************************************************************************)

\* C1: in a non-interactive run without dry_run and with a valid
\* destination name, once the listing shows the destination and overwrite
\* is false, the run has ended with the "destination exists" error and no
\* delete and no copy was issued, over HTTP or through the CLI, whatever
\* delete_original, force and use_cli_fallback are.
C1_DestinationExistsBails ==
    ( /\ mode = "ni"
      /\ ~req.dry_run
      /\ validate_model_name(Trim(req.to))
      /\ ~req.overwrite
      /\ DestinationListed )
    => /\ pc = "done"
       /\ result = "DestinationExists"
       /\ ~Issued(DeleteOps \cup CopyOps)
       /\ registry = registry0

C1_Witness ==
    /\ mode = "ni"
    /\ ~req.dry_run
    /\ ~req.overwrite
    /\ DestinationListed
    /\ req.delete_original
    /\ req.force
    /\ use_cli_fallback
    /\ result = "DestinationExists"

\* C2: in a non-interactive run without dry_run, when the destination
\* exists and overwrite is true, the first thing issued after the existence
\* check is a delete of the destination; a copy call is issued only after
\* exactly one delete_model call, of the destination, has returned Ok; and
\* when that delete_model call fails the run fails without any copy call.
C2_OverwriteDeletesBeforeCopy ==
    ( /\ mode = "ni"
      /\ ~req.dry_run
      /\ req.overwrite
      /\ DestinationListed )
    => /\ Len(trace) = 1 => pc = "del_delete" /\ step = "overwrite"
       /\ Len(trace) >= 2 =>
            /\ trace[2].op = "DELETE /api/delete"
            /\ trace[2].a = to
       /\ \A j \in Indices :
            trace[j].op \in CopyOps =>
                /\ Cardinality({ i \in 1..(j - 1) : trace[i].op = "delete_model" }) = 1
                /\ \A i \in 1..(j - 1) :
                     /\ trace[i].op = "delete_model" =>
                            trace[i].a = to /\ trace[i].res = "Ok"
                     /\ trace[i].op \in DeleteOps => trace[i].a = to
       /\ \A i \in Indices :
            ( /\ trace[i].op = "delete_model"
              /\ trace[i].step = "overwrite"
              /\ trace[i].res = "Err" )
            => /\ pc = "done"
               /\ result = "DeleteDestinationFailed"
               /\ ~Issued(CopyOps)

C2_Witness ==
    /\ mode = "ni"
    /\ req.overwrite
    /\ DestinationListed
    /\ \E i, j \in Indices :
         /\ i < j
         /\ trace[i].op = "delete_model"
         /\ trace[i].a = to
         /\ trace[i].res = "Ok"
         /\ trace[j].op = "POST /api/copy"
    /\ result = "Ok"

\* C3: in a non-interactive run, after a successful copy with
\* delete_original: when force is false and /api/ps reports the source
\* running, the run has failed and no delete of the source was issued; when
\* force is true, /api/ps is never asked and the delete of the source is
\* the next thing issued, also when the source is running.
C3_RunningGuard ==
    ( /\ mode = "ni"
      /\ req.delete_original
      /\ CopySucceeded )
    => /\ ( /\ ~req.force
            /\ \E i \in Indices : trace[i].op = "GET /api/ps" /\ trace[i].val )
          => /\ pc = "done"
             /\ result = "SourceAppearsLoaded"
             /\ \A i \in Indices :
                  trace[i].op \in DeleteOps => trace[i].step # "delete_original"
       /\ req.force
          => /\ ~Issued({ "GET /api/ps" })
             /\ \A i \in Indices :
                  ( trace[i].op = "copy_model" /\ trace[i].res = "Ok" )
                  => IF i = Len(trace)
                     THEN pc = "del_delete" /\ step = "delete_original"
                     ELSE /\ trace[i + 1].op = "DELETE /api/delete"
                          /\ trace[i + 1].a = from

C3_Witness ==
    /\ mode = "ni"
    /\ req.delete_original
    /\ ~req.force
    /\ CopySucceeded
    /\ from \in running
    /\ \E i \in Indices : trace[i].op = "GET /api/ps" /\ trace[i].val
    /\ result = "SourceAppearsLoaded"

\* C4: a non-interactive run with dry_run and a destination name that is
\* valid after trimming ends with success in its first step, and issues no
\* request and runs no child process: the registry is the one it started
\* with, whatever the registry and the other flags are.
C4_DryRunNoEffect ==
    ( /\ mode = "ni"
      /\ req.dry_run
      /\ validate_model_name(Trim(req.to)) )
    => /\ trace = << >>
       /\ registry = registry0
       /\ pc \in { "ni_start", "done" }
       /\ pc = "done" => result = "Ok"

C4_Witness ==
    /\ mode = "ni"
    /\ req.dry_run
    /\ req.to = << " ", "a", " " >>
    /\ to \in registry
    /\ ~req.overwrite
    /\ req.delete_original
    /\ pc = "done"
    /\ result = "Ok"

\* C5: when the copy step fails, the run fails and the registry is the one
\* the run started with.
C5_CopyFailureLeavesRegistry ==
    ( \E i \in Indices : trace[i].op = "copy_model" /\ trace[i].res = "Err" )
    => /\ pc = "done"
       /\ result = "CopyFailed"
       /\ registry = registry0


\* the event after event i is the return of `fn` with res, for the same name
Returned(i, fn, res) ==
    /\ i < Len(trace)
    /\ trace[i + 1].op = fn
    /\ trace[i + 1].res = res
    /\ trace[i + 1].a = trace[i].a

\* event i is followed by the operation op on the same name; when it is the
\* last event so far, the program is about to issue it
Followed(i, op, p) ==
    IF i = Len(trace)
    THEN pc = p
    ELSE trace[i + 1].op = op /\ trace[i + 1].a = trace[i].a

\* the requests and child processes of the call that returns at event i
Attempts(i, ops) ==
    { k \in 1..(i - 1) :
        \A l \in k..(i - 1) : trace[l].op \in ops }

\* C6 as stated: every DELETE that does not return success, transport
\* error included, is followed by the POST, and the CLI runs only after
\* both HTTP attempts failed.
C6_PostAfterEveryFailedDelete ==
    \A i \in Indices :
        /\ ( trace[i].op = "DELETE /api/delete" /\ trace[i].res # "ok" )
           => Followed(i, "POST /api/delete", "del_post")
        /\ trace[i].op = "ollama rm"
           => /\ i > 2
              /\ trace[i - 1].op = "POST /api/delete"
              /\ trace[i - 2].op = "DELETE /api/delete"

\* C6, amended: delete tries DELETE first; a DELETE answered with a
\* non-2xx status is followed by exactly one POST for the same name, a
\* DELETE that fails in transport is followed by no POST; the CLI delete
\* runs only with the fallback enabled and only after the HTTP attempt
\* failed (DELETE in transport, or DELETE by status and then POST); delete
\* returns Ok iff one of the steps it tried succeeded, and with the
\* fallback disabled the HTTP failure ends the run with an error.
C6_DeleteOrder ==
    \A i \in Indices :
        LET e == trace[i]
        IN  /\ e.op = "DELETE /api/delete" =>
                /\ i > 1 => trace[i - 1].op \notin DeleteOps
                /\ CASE e.res = "ok"     -> Returned(i, "delete_model", "Ok")
                     [] e.res = "status" -> Followed(i, "POST /api/delete", "del_post")
                     [] OTHER ->
                          IF use_cli_fallback
                          THEN Followed(i, "ollama rm", "del_cli")
                          ELSE Returned(i, "delete_model", "Err")
            /\ e.op = "POST /api/delete" =>
                /\ i > 1
                /\ trace[i - 1].op = "DELETE /api/delete"
                /\ trace[i - 1].res = "status"
                /\ trace[i - 1].a = e.a
                /\ IF e.res = "ok"
                   THEN Returned(i, "delete_model", "Ok")
                   ELSE IF use_cli_fallback
                   THEN Followed(i, "ollama rm", "del_cli")
                   ELSE Returned(i, "delete_model", "Err")
            /\ e.op = "ollama rm" =>
                /\ use_cli_fallback
                /\ i > 1
                /\ trace[i - 1].a = e.a
                /\ \/ /\ trace[i - 1].op = "DELETE /api/delete"
                      /\ trace[i - 1].res = "transport"
                   \/ /\ trace[i - 1].op = "POST /api/delete"
                      /\ trace[i - 1].res # "ok"
                /\ Returned(i, "delete_model", IF e.res = "zero" THEN "Ok" ELSE "Err")
            /\ e.op = "delete_model" =>
                /\ Attempts(i, DeleteOps) # { }
                /\ e.res = "Ok" <=> \E k \in Attempts(i, DeleteOps) : trace[k].val
                /\ e.res = "Err" =>
                     /\ pc = "done"
                     /\ result \in { "DeleteDestinationFailed", "DeleteOriginalFailed" }

C6_Witness ==
    \E i \in Indices :
        /\ i > 3
        /\ trace[i].op = "delete_model"
        /\ trace[i].res = "Ok"
        /\ trace[i - 1].op = "ollama rm"
        /\ trace[i - 2].op = "POST /api/delete"
        /\ trace[i - 3].op = "DELETE /api/delete"

\* C7: in both workflows, the running check and the delete of the source
\* that make up the delete-original step happen only after copy_model
\* returned Ok for this source and destination; after a copy_model that
\* returned Err nothing more is issued.
C7_DeleteOriginalOnlyAfterCopy ==
    /\ \A i \in Indices :
         ( /\ trace[i].step = "delete_original"
           /\ trace[i].op \in DeleteOps \cup { "GET /api/ps", "delete_model" } )
         => \E j \in 1..(i - 1) :
              /\ trace[j].op = "copy_model"
              /\ trace[j].res = "Ok"
              /\ trace[j].a = trace[i].a
    /\ \A j \in Indices :
         ( trace[j].op = "copy_model" /\ trace[j].res = "Err" )
         => /\ j = Len(trace)
            /\ pc = "done"
            /\ result = "CopyFailed"
    /\ ( \/ pc \in { "ni_ps", "ia_ps", "ia_confirm_delete", "ia_confirm_proceed" }
         \/ ( pc \in { "del_delete", "del_post", "del_cli" } /\ step # "overwrite" ) )
       => CopySucceeded

C7_Witness ==
    /\ mode = "ia"
    /\ \E i \in Indices :
         /\ trace[i].op = "delete_model"
         /\ trace[i].step = "delete_original"
         /\ trace[i].a = from
         /\ trace[i].res = "Ok"
    /\ from \notin registry
    /\ to \in registry

\* C8: when the copy succeeded and the delete of the original then failed,
\* the run has ended with an error that is not the copy error, no delete of
\* the destination was issued after the copy, and the registry holds both
\* the source and the destination.
C8_PartialCompletion ==
    \A j \in Indices :
        ( /\ trace[j].op = "copy_model"
          /\ trace[j].res = "Ok"
          /\ \E i \in Indices :
               /\ i > j
               /\ trace[i].op = "delete_model"
               /\ trace[i].res = "Err" )
        => /\ pc = "done"
           /\ result = "DeleteOriginalFailed"
           /\ \A k \in Indices :
                ( k > j /\ trace[k].op \in DeleteOps ) => trace[k].a # to
           /\ from \in registry
           /\ to \in registry

C8_Witness ==
    /\ CopySucceeded
    /\ trace[Len(trace)].op = "delete_model"
    /\ trace[Len(trace)].res = "Err"
    /\ trace[Len(trace)].step = "delete_original"
    /\ result = "DeleteOriginalFailed"
    /\ to \notin registry0

\* C9: a /api/ps request that fails (transport error, non-2xx status or a
\* body that does not decode) counts as "not running": the run is not
\* ended and no prompt is shown, the next thing issued is the delete of
\* the source.
C9_RunningCheckFailsOpen ==
    \A i \in Indices :
        ( trace[i].op = "GET /api/ps" /\ trace[i].res # "ok" )
        => /\ ~trace[i].val
           /\ trace[i].a = from
           /\ IF i = Len(trace)
              THEN pc = "del_delete" /\ step = "delete_original" /\ result = "pending"
              ELSE /\ trace[i + 1].op = "DELETE /api/delete"
                   /\ trace[i + 1].a = from

C9_Witness ==
    /\ mode = "ni"
    /\ req.delete_original
    /\ ~req.force
    /\ from \in running
    /\ \E i \in Indices :
         /\ trace[i].op = "GET /api/ps"
         /\ trace[i].res = "transport"
         /\ i < Len(trace)
         /\ trace[i + 1].op = "DELETE /api/delete"

\* C10: a copy issues exactly one POST /api/copy; it returns Ok iff the
\* POST was answered 2xx, or the POST failed, the fallback is enabled and
\* `ollama cp` exited with zero; `ollama cp` runs only after a failed POST
\* with the fallback enabled, and with the fallback disabled a failed POST
\* ends the run with the copy error.
C10_CopyFallback ==
    \A i \in Indices :
        LET e == trace[i]
        IN  /\ e.op = "POST /api/copy" =>
                /\ i > 1 => trace[i - 1].op \notin CopyOps
                /\ IF e.res = "ok"
                   THEN Returned(i, "copy_model", "Ok")
                   ELSE IF use_cli_fallback
                   THEN Followed(i, "ollama cp", "copy_cli")
                   ELSE Returned(i, "copy_model", "Err") /\ result = "CopyFailed"
            /\ e.op = "ollama cp" =>
                /\ use_cli_fallback
                /\ i > 1
                /\ trace[i - 1].op = "POST /api/copy"
                /\ trace[i - 1].res # "ok"
                /\ trace[i - 1].a = e.a
                /\ trace[i - 1].b = e.b
                /\ Returned(i, "copy_model", IF e.res = "zero" THEN "Ok" ELSE "Err")
            /\ e.op = "copy_model" =>
                /\ Cardinality({ k \in Attempts(i, CopyOps) :
                                   trace[k].op = "POST /api/copy" }) = 1
                /\ e.res = "Ok" <=>
                     \E k \in Attempts(i, CopyOps) :
                        \/ trace[k].op = "POST /api/copy" /\ trace[k].res = "ok"
                        \/ trace[k].op = "ollama cp" /\ trace[k].res = "zero"

C10_Witness ==
    \E i \in Indices :
        /\ i > 2
        /\ trace[i].op = "copy_model"
        /\ trace[i].res = "Ok"
        /\ trace[i - 1].op = "ollama cp"
        /\ trace[i - 1].res = "zero"
        /\ trace[i - 2].op = "POST /api/copy"
        /\ trace[i - 2].res = "status"


ConfirmOps == { "confirm overwrite", "confirm delete", "confirm proceed" }

\* the user typed yes at this prompt before event i
Confirmed(op, i) ==
    \E j \in 1..(i - 1) : trace[j].op = op /\ trace[j].res = "yes"

\* C11: in an interactive run, no delete of an existing destination and no
\* copy over it is issued unless the user typed yes at the overwrite
\* prompt; no delete of the source is issued unless the user typed yes at
\* the delete-original prompt and, when the source is reported running,
\* also at the proceed-anyway prompt, which is then shown; a prompt that is
\* declined, by typing no or by pressing Enter on the default, ends the run
\* with success and nothing is issued after it.
C11_InteractiveGuards ==
    mode = "ia" =>
        \A i \in Indices :
            LET e == trace[i]
            IN  /\ ( e.op \in DeleteOps /\ e.step = "overwrite" )
                   => Confirmed("confirm overwrite", i)
                /\ ( e.op \in CopyOps /\ DestinationListed )
                   => Confirmed("confirm overwrite", i)
                /\ ( e.op \in DeleteOps /\ e.step = "delete_original" )
                   => /\ Confirmed("confirm delete", i)
                      /\ ( \E j \in 1..(i - 1) :
                              trace[j].op = "GET /api/ps" /\ trace[j].val )
                         => Confirmed("confirm proceed", i)
                /\ ( e.op = "GET /api/ps" /\ e.val )
                   => Followed(i, "confirm proceed", "ia_confirm_proceed")
                /\ ( e.op \in ConfirmOps /\ e.res \in { "no", "enter" } )
                   => /\ i = Len(trace)
                      /\ pc = "done"
                      /\ result = "Ok"

C11_Witness ==
    /\ mode = "ia"
    /\ CopySucceeded
    /\ from \in running
    /\ trace[Len(trace)].op = "confirm proceed"
    /\ trace[Len(trace)].res = "enter"
    /\ \E j \in Indices : trace[j].op = "confirm overwrite" /\ trace[j].res = "yes"
    /\ result = "Ok"
    /\ from \in registry


BootIndices == 1..Len(boot_log)

\* the probes of the wait loop: every probe but the first
BootPolls == { i \in BootIndices : i > 1 /\ boot_log[i].op = "GET /api/version" }

BootStarts == { i \in BootIndices : boot_log[i].op = "start_ollama_service" }

C12_BootBounded ==
    /\ Len(boot_log) >= 1 =>
         /\ boot_log[1].op = "GET /api/version"
         /\ boot_log[1].ok =>
              /\ Len(boot_log) = 1
              /\ boot_pc = "done"
              /\ boot_result = "Ok"
    /\ ( Len(boot_log) >= 2 /\ ~boot_log[2].ok ) =>
         /\ boot_log[2].op = "ollama --version"
         /\ Len(boot_log) = 2
         /\ boot_pc = "done"
         /\ boot_result = "CliNotFound"
    /\ Cardinality(BootStarts) <= 1
    /\ Cardinality(BootPolls) <= MaxPolls
    /\ \A i \in BootPolls :
         /\ \E j \in BootStarts : j < i /\ boot_log[j].ok
         /\ boot_log[i].ok =>
              /\ i = Len(boot_log)
              /\ boot_pc = "done"
              /\ boot_result = "Ok"
    /\ boot_result = "Timeout" <=>
         /\ boot_pc = "done"
         /\ Cardinality(BootPolls) = MaxPolls
         /\ \A i \in BootPolls : ~boot_log[i].ok
    /\ boot_result = "Ok" <=>
         /\ boot_pc = "done"
         /\ boot_log[Len(boot_log)].op = "GET /api/version"
         /\ boot_log[Len(boot_log)].ok
    /\ boot_pc = "done" <=> boot_result # "pending"

\* C12: ensure_ollama_is_running ends, and is bounded: a first probe that
\* succeeds ends it with Ok and nothing else done; a failed first probe
\* with the executable absent ends it with an error, no start and no poll;
\* otherwise there is one start attempt and at most 30 polls, a poll that
\* succeeds is the last one and ends it with Ok, and it ends with the
\* timeout error iff 30 polls were made and all failed.
C12_EnsureRunningTerminates ==
    /\ []C12_BootBounded
    /\ <>(boot_pc = "done")

C12_Witness ==
    /\ boot_result = "Timeout"
    /\ Cardinality(BootPolls) = MaxPolls
    /\ Cardinality(BootStarts) = 1


(***************************************************************************)
(* The functions on names: the two ways a destination name enters,         *)
(* validate_model_name and suggest_simple_name                             *)
(***************************************************************************)
\* longest raw string given to the entry points and to validate_model_name
MaxLen == 4

\* most noise markers appended to a name given to suggest_simple_name
MaxMarkers == 2

\* characters of the raw strings: of the class, the separators, and two
\* characters outside the grammar
Alphabet == { "a", "0", ".", "/", ":", " ", "@" }

RECURSIVE StringsUpTo(_)
StringsUpTo(n) ==
    IF n = 0 THEN { << >> }
    ELSE LET shorter == StringsUpTo(n - 1)
         IN  shorter \cup
             { Append(t, c) : t \in { u \in shorter : Len(u) = n - 1 },
                              c \in Alphabet }

\* the patterns of suggest_simple_name, in its order
Markers ==
    << << "-", "G", "G", "U", "F" >>,
       << "-", "g", "g", "u", "f" >>,
       << ".", "g", "g", "u", "f" >>,
       << "-", "Q", "2" >>,
       << "-", "Q", "3" >>,
       << "-", "Q", "4" >>,
       << "-", "Q", "5" >>,
       << "-", "Q", "6" >>,
       << "-", "Q", "8" >>,
       << "-", "K" >>,
       << "_", "K" >>,
       << "-", "K", "M" >>,
       << "_", "K", "M" >>,
       << "-", "K", "_", "M" >>,
       << "_", "K", "_", "M" >>,
       << "-", "Q", "4", "_", "K" >>,
       << "_", "Q", "4", "_", "K" >>,
       << "-", "Q", "5", "_", "K" >>,
       << "_", "Q", "5", "_", "K" >> >>

\* up to n markers, one after the other
RECURSIVE MarkerRuns(_)
MarkerRuns(n) ==
    IF n = 0 THEN { << >> }
    ELSE LET shorter == MarkerRuns(n - 1)
         IN  shorter \cup
             { r \o Markers[k] : r \in shorter, k \in 1..Len(Markers) }

\* "hf.co/org/Name-GGUF:Q4_K_M"
ExampleHf ==
    << "h", "f", ".", "c", "o", "/", "o", "r", "g", "/", "N", "a", "m", "e",
       "-", "G", "G", "U", "F", ":", "Q", "4", "_", "K", "_", "M" >>

\* "qwen3-coder:latest"
ExampleQwen ==
    << "q", "w", "e", "n", "3", "-", "c", "o", "d", "e", "r", ":",
       "l", "a", "t", "e", "s", "t" >>

\* full names given to suggest_simple_name: a name with markers after it,
\* with and without a namespace, with and without a tag
SuggestInputs ==
    { ExampleHf, ExampleQwen } \cup
    { pre \o << "N" >> \o r \o tag :
        pre \in { << >>, << "o", "/" >> },
        r \in MarkerRuns(MaxMarkers),
        tag \in { << >>, << ":", "Q", "4", "_", "K" >>, << ":", "t", "/", "x" >> } }

\* the position of the first c in s, 0 when there is none
RECURSIVE IndexOf(_, _, _)
IndexOf(s, c, i) ==
    IF i > Len(s) THEN 0
    ELSE IF s[i] = c THEN i
    ELSE IndexOf(s, c, i + 1)

\* full.split(':').next(): what precedes the first ':'
BeforeTag(full) ==
    LET p == IndexOf(full, ":", 1)
    IN  IF p = 0 THEN full ELSE SubSeq(full, 1, p - 1)

\* before_tag.split('/').last(): what follows the last '/'
RECURSIVE LastSegment(_)
LastSegment(s) ==
    LET p == IndexOf(s, "/", 1)
    IN  IF p = 0 THEN s ELSE LastSegment(SubSeq(s, p + 1, Len(s)))

\* s.find(pat): the first position from i on where pat starts, 0 for None
RECURSIVE Find(_, _, _)
Find(s, pat, i) ==
    IF i + Len(pat) - 1 > Len(s) THEN 0
    ELSE IF SubSeq(s, i, i + Len(pat) - 1) = pat THEN i
    ELSE Find(s, pat, i + 1)

\* the loop stops at the first pattern found
RECURSIVE DropNoise_Break(_, _)
DropNoise_Break(s, pats) ==
    IF pats = << >> THEN s
    ELSE LET pos == Find(s, Head(pats), 1)
         IN  IF pos # 0
             THEN SubSeq(s, 1, pos - 1)
             ELSE DropNoise_Break(s, Tail(pats))

\* `for pat in &[..] { if let Some(pos) = s.find(pat) { s.truncate(pos) } }`:
\* every pattern is looked for, in what the patterns before it have left
RECURSIVE DropNoise(_, _)
DropNoise(s, pats) ==
    IF pats = << >> THEN s
    ELSE LET pos == Find(s, Head(pats), 1)
         IN  DropNoise(IF pos # 0 THEN SubSeq(s, 1, pos - 1) ELSE s, Tail(pats))

suggest_simple_name(full) == DropNoise(LastSegment(BeforeTag(full)), Markers)

\* what an entry point makes of a raw name
Accept(name) == [ done |-> TRUE, ok |-> TRUE, name |-> name ]

Reject == [ done |-> TRUE, ok |-> FALSE, name |-> NoName ]

InitNames ==
    /\ BootDone
    /\ registry = { }
    /\ running = { }
    /\ registry0 = { }
    /\ use_cli_fallback = FALSE
    /\ mode = "ni"
    /\ req = NoRequest
    /\ pc = "not_started"
    /\ from = NoName
    /\ to = NoName
    /\ step = "none"
    /\ result = "pending"
    /\ trace = << >>
    /\ models = { }
    /\ others = 0
    /\ applied \in { "entry", "validate", "suggest" }
    /\ input \in (IF applied = "suggest" THEN SuggestInputs ELSE StringsUpTo(MaxLen))
    /\ flag_out = NotApplied
    /\ prompt_out = NotApplied
    /\ valid_out = NotApplied
    /\ suggest_out = NotApplied

\* everything but the outputs of the functions on names
notout ==
    << registry, running, mode, use_cli_fallback, req, pc, from, to, step,
       result, trace, models, registry0, bootvars, applied, input, others >>

\* --to input: run_non_interactive trims, validates, and goes on with the
\* trimmed name
EnterByFlag ==
    /\ applied = "entry"
    /\ ~flag_out.done
    /\ flag_out' = (IF NI_Accepts(input) THEN Accept(Trim(input)) ELSE Reject)
    /\ UNCHANGED << prompt_out, valid_out, suggest_out >>
    /\ UNCHANGED notout

\* input typed at the name prompt: run_interactive validates the text as
\* typed, and goes on with the trimmed text when the prompt accepted it
EnterByPrompt ==
    /\ applied = "entry"
    /\ ~prompt_out.done
    /\ prompt_out' = (IF IA_Accepts(input) THEN Accept(Trim(input)) ELSE Reject)
    /\ UNCHANGED << flag_out, valid_out, suggest_out >>
    /\ UNCHANGED notout

Validate ==
    /\ applied = "validate"
    /\ ~valid_out.done
    /\ valid_out' = (IF validate_model_name(input) THEN Accept(input) ELSE Reject)
    /\ UNCHANGED << flag_out, prompt_out, suggest_out >>
    /\ UNCHANGED notout

Suggest ==
    /\ applied = "suggest"
    /\ ~suggest_out.done
    /\ suggest_out' = Accept(suggest_simple_name(input))
    /\ UNCHANGED << flag_out, prompt_out, valid_out >>
    /\ UNCHANGED notout

NextNames ==
    \/ EnterByFlag
    \/ EnterByPrompt
    \/ Validate
    \/ Suggest

SpecNames == InitNames /\ [][NextNames]_vars

\* C13: for every raw string, the name prompt accepts it iff --to accepts
\* it, and both hand the same name to the workflow.
C13_SameOnBothEntries ==
    ( flag_out.done /\ prompt_out.done ) => flag_out = prompt_out


\* the grammar as the claim words it: what precedes the first ':' is one or
\* more non-empty '/'-separated segments over letters, digits, '.', '_',
\* '-'; what follows it, when there is a ':', is a non-empty tag over the
\* same characters
InGrammar(s) ==
    LET colons == { i \in 1..Len(s) : s[i] = ":" }
        cut == IF colons = { } THEN Len(s) + 1
               ELSE CHOOSE i \in colons : \A j \in colons : i <= j
        path == SubSeq(s, 1, cut - 1)
        tag == SubSeq(s, cut + 1, Len(s))
    IN  /\ Len(path) >= 1
        /\ \A i \in 1..Len(path) : IsNameChar(path[i]) \/ path[i] = "/"
        /\ path[1] # "/"
        /\ path[Len(path)] # "/"
        /\ \A i \in 1..(Len(path) - 1) : ~(path[i] = "/" /\ path[i + 1] = "/")
        /\ colons # { } =>
             /\ Len(tag) >= 1
             /\ \A i \in 1..Len(tag) : IsNameChar(tag[i])

\* C14: validate_model_name accepts exactly the strings of the grammar; it
\* rejects the empty string, a string with a character outside the
\* grammar (space, '@'), an empty segment (a leading, trailing or doubled
\* '/'), an empty tag and a second ':'.
C14_ValidateIsGrammar ==
    valid_out.done =>
        /\ valid_out.ok <=> InGrammar(input)
        /\ input = << >> => ~valid_out.ok
        /\ ( \E i \in 1..Len(input) : input[i] \in { " ", "@" } ) => ~valid_out.ok
        /\ ( input # << >> /\ input[1] = "/" ) => ~valid_out.ok
        /\ ( input # << >> /\ input[Len(input)] = "/" ) => ~valid_out.ok
        /\ ( \E i \in 1..(Len(input) - 1) :
                input[i] = "/" /\ input[i + 1] \in { "/", ":" } ) => ~valid_out.ok
        /\ ( input # << >> /\ input[Len(input)] = ":" ) => ~valid_out.ok
        /\ Cardinality({ i \in 1..Len(input) : input[i] = ":" }) >= 2 => ~valid_out.ok

C14_Witness ==
    /\ valid_out.done
    /\ valid_out.ok
    /\ input = << "a", "/", "0", "." >>


\* pat starts at position p of s
OccursAt(s, pat, p) ==
    /\ p \in 1..(Len(s) - Len(pat) + 1)
    /\ \A k \in 1..Len(pat) : s[p + k - 1] = pat[k]

Occurs(s, pat) == \E p \in 1..Len(s) : OccursAt(s, pat, p)

\* s cut at the first occurrence of pat, s itself when pat does not occur
CutAt(s, pat) ==
    IF Occurs(s, pat)
    THEN LET p == CHOOSE q \in 1..Len(s) :
                    /\ OccursAt(s, pat, q)
                    /\ \A r \in 1..(q - 1) : ~OccursAt(s, pat, r)
         IN  SubSeq(s, 1, p - 1)
    ELSE s

\* the name without what starts at the first ':', then its last segment
SegmentOf(full) ==
    LET colons == { i \in 1..Len(full) : full[i] = ":" }
        stop == IF colons = { } THEN Len(full)
                ELSE (CHOOSE i \in colons : \A j \in colons : i <= j) - 1
        slashes == { i \in 1..stop : full[i] = "/" }
        start == IF slashes = { } THEN 1
                 ELSE (CHOOSE i \in slashes : \A j \in slashes : i >= j) + 1
    IN  SubSeq(full, start, stop)

\* the segment cut once, at the first marker of the list that occurs in it
CutOnce(seg) ==
    LET found == { k \in 1..Len(Markers) : Occurs(seg, Markers[k]) }
    IN  IF found = { } THEN seg
        ELSE CutAt(seg, Markers[CHOOSE k \in found : \A l \in found : k <= l])

\* the segment cut for the first k markers of the list in turn, each at its
\* first occurrence in what the cuts before it have left
RECURSIVE CutInTurn(_, _)
CutInTurn(seg, k) ==
    IF k = 0 THEN seg ELSE CutAt(CutInTurn(seg, k - 1), Markers[k])

\* C15 as stated: the suggestion is the last segment of the name without
\* its tag, cut once, at the first listed marker that occurs in it.
C15_CutOnceAtFirstMarker ==
    suggest_out.done => suggest_out.name = CutOnce(SegmentOf(input))

\* C15, amended: the suggestion is the last '/'-separated segment of what
\* precedes the first ':', cut for every marker of the ordered list in
\* turn, at the marker's first occurrence in what the earlier cuts have
\* left (a segment with no marker is returned unchanged);
\* suggest("hf.co/org/Name-GGUF:Q4_K_M") = "Name" and
\* suggest("qwen3-coder:latest") = "qwen3-coder".
C15_CutForEveryMarker ==
    suggest_out.done =>
        /\ suggest_out.name = CutInTurn(SegmentOf(input), Len(Markers))
        /\ ( \A k \in 1..Len(Markers) : ~Occurs(SegmentOf(input), Markers[k]) )
           => suggest_out.name = SegmentOf(input)
        /\ input = ExampleHf => suggest_out.name = << "N", "a", "m", "e" >>
        /\ input = ExampleQwen =>
             suggest_out.name = << "q", "w", "e", "n", "3", "-", "c", "o", "d", "e", "r" >>

C15_Witness ==
    /\ suggest_out.done
    /\ input = << "o", "/", "N", "-", "Q", "4", "-", "G", "G", "U", "F",
                  ":", "t", "/", "x" >>
    /\ suggest_out.name = << "N" >>


\* C16: a non-interactive request whose source is installed at the start
\* never loses the model: in every state of the run the source name or the
\* destination name is in the registry, and the source is in the registry
\* unless the destination is.
C16_NoRenameLosesModel ==
    ( /\ mode = "ni"
      /\ Trim(req.from) \in registry0 )
    => /\ Trim(req.from) \in registry \/ Trim(req.to) \in registry
       /\ Trim(req.from) \notin registry => Trim(req.to) \in registry


(***************************************************************************)
(* A non-interactive run beside other clients of the same daemon           *)
(***************************************************************************)
\* registry changes the daemon makes for other clients during one run
MaxOther == 1

InitConc ==
    /\ Init
    /\ mode = "ni"

\* the daemon serves another client while the run is between two of its
\* own requests: a model is created under a free name, or a model that is
\* not loaded is deleted
OtherClient ==
    /\ pc \notin { "done", "not_started" }
    /\ others < MaxOther
    /\ \E n \in ModelNames :
        \/ /\ n \notin registry
           /\ registry' = registry \cup { n }
        \/ /\ n \in registry \ running
           /\ registry' = registry \ { n }
    /\ others' = others + 1
    /\ UNCHANGED << running, mode, use_cli_fallback, req, pc, from, to, step,
                    result, trace, models, registry0, bootvars, namevars >>

NextConc ==
    \/ NI_Validate
    \/ NI_ModelExists
    \/ DeleteHttpDelete
    \/ DeleteHttpPost
    \/ CliRm
    \/ CopyHttpPost
    \/ CliCopy
    \/ NI_ModelIsRunning
    \/ OtherClient

SpecConc == InitConc /\ [][NextConc]_vars

\* C17: with overwrite false the copy call is never issued while a model
\* exists under the destination name, whatever other clients of the daemon
\* do to the registry during the run: in no state in which the run's next
\* request is the copy is the destination in the registry.
C17_CopyNeverOntoExisting ==
    ( /\ mode = "ni"
      /\ ~req.overwrite
      /\ pc \in { "copy_post", "copy_cli" } )
    => to \notin registry

====
